---- MODULE Spec2Model ----
(***************************************************************************)
(* A model of rgpio: the sysfs GPIO library (rgpiolib/src/lib.rs) and the  *)
(* command-line driver (rgpio/src/main.rs).                                *)
(*                                                                         *)
(* Text (file contents, payloads, command-line arguments) is a sequence of *)
(* one-character strings, so that formatting and parsing are computed      *)
(* character by character as the code does.  Paths are TLA+ strings.       *)
(*                                                                         *)
(* The sysfs side is the environment.  Every request the library makes can *)
(* be refused by the platform (permission, busy line, rejected payload);   *)
(* a write the platform accepts replaces the attribute's content by the    *)
(* payload (a sysfs attribute has no offset: every write is one store).    *)
(***************************************************************************)
EXTENDS Integers, Sequences, FiniteSets, TLC

VARIABLES files, last, args, argi, gpio_num, pc, stdout, issued

vars == <<files, last, args, argi, gpio_num, pc, stdout, issued>>

(***************************************************************************)
(* Bounds of the model.                                                    *)
(***************************************************************************)
\* The platform exposes ExtraPins lines besides the first one.
ExtraPins == 1
\* The driver is run with at most MaxArgs pin arguments.
MaxArgs == 2
\* Value-file contents tried by SpecRead have at most MaxLen characters.
MaxLen == 2

(***************************************************************************)
(* Program constants.                                                      *)
(***************************************************************************)
\* The pin of the tests and of the documentation examples.
FirstPin == 4
\* The range of i32, the type read() parses into and of a pin number.
I32_MAX == 2147483647
I32_MIN == -I32_MAX - 1

PlatformPins == {FirstPin + 13 * k : k \in 0..ExtraPins}
\* Pin numbers a caller passes: the platform's and one the platform lacks.
ArgPins == PlatformPins \cup {-1}

(***************************************************************************)
(* Text: decimal formatting and parsing.                                   *)
(***************************************************************************)
DigitChars == <<"0", "1", "2", "3", "4", "5", "6", "7", "8", "9">>

RECURSIVE Str(_)
\* A text as one TLA+ string (what format! appends to a path).
Str(s) == IF s = <<>> THEN "" ELSE Head(s) \o Str(Tail(s))

RECURSIVE fmt_u(_)
\* The decimal digits of a natural number, most significant first.
fmt_u(n) ==
    IF n < 10 THEN <<DigitChars[n + 1]>>
    ELSE Append(fmt_u(n \div 10), DigitChars[(n % 10) + 1])

RECURSIVE fmt_neg(_)
\* The decimal digits of |n| for n < 0, computed without negating n
\* (|i32::MIN| does not fit i32).
fmt_neg(n) ==
    LET d == (10 - (n % 10)) % 10
        q == (n + d) \div 10
    IN  IF q = 0 THEN <<DigitChars[d + 1]>>
        ELSE Append(fmt_neg(q), DigitChars[d + 1])

\* i32::to_string: a minus sign for a negative number, then the digits.
i32_to_string(n) == IF n < 0 THEN <<"-">> \o fmt_neg(n) ELSE fmt_u(n)

\* bool::to_string.
bool_to_string(b) ==
    IF b THEN <<"t", "r", "u", "e">> ELSE <<"f", "a", "l", "s", "e">>

\* char::to_digit(10): the digit's value, or -1 for any other character.
to_digit(c) ==
    IF \E d \in 0..9 : DigitChars[d + 1] = c
    THEN CHOOSE d \in 0..9 : DigitChars[d + 1] = c
    ELSE -1

ParseOk(n) == [ok |-> TRUE, val |-> n, why |-> "None"]
ParseErr(why) == [ok |-> FALSE, val |-> 0, why |-> why]

RECURSIVE parse_digits(_, _, _)
\* The digit loop of i32::from_str, left to right: checked_mul(10), then
\* checked_add(digit), or checked_sub(digit) for a negative number.
parse_digits(s, acc, neg) ==
    IF s = <<>> THEN ParseOk(acc)
    ELSE LET d == to_digit(Head(s))
         IN  IF d < 0 THEN ParseErr("InvalidDigit")
             ELSE IF neg
             THEN IF acc < -(I32_MAX \div 10) \/ acc * 10 < I32_MIN + d
                  THEN ParseErr("NegOverflow")
                  ELSE parse_digits(Tail(s), acc * 10 - d, neg)
             ELSE IF acc > I32_MAX \div 10 \/ acc * 10 > I32_MAX - d
                  THEN ParseErr("PosOverflow")
                  ELSE parse_digits(Tail(s), acc * 10 + d, neg)

\* str::parse::<i32>: no trimming; an optional sign, then at least one digit.
parse_i32(s) ==
    IF s = <<>> THEN ParseErr("Empty")
    ELSE IF s = <<"+">> \/ s = <<"-">> THEN ParseErr("InvalidDigit")
    ELSE IF Head(s) = "+" THEN parse_digits(Tail(s), 0, FALSE)
    ELSE IF Head(s) = "-" THEN parse_digits(Tail(s), 0, TRUE)
    ELSE parse_digits(s, 0, FALSE)

(***************************************************************************)
(* Paths and directions.                                                   *)
(***************************************************************************)
EXPORT == [kind |-> "EXPORT", num |-> 0]
UNEXPORT == [kind |-> "UNEXPORT", num |-> 0]
VALUE(num) == [kind |-> "VALUE", num |-> num]
DIRECTION(num) == [kind |-> "DIRECTION", num |-> num]

\* GpioPaths::as_str
as_str(path) ==
    CASE path.kind = "EXPORT" -> "/sys/class/gpio/export"
      [] path.kind = "UNEXPORT" -> "/sys/class/gpio/unexport"
      [] path.kind = "VALUE" ->
            "/sys/class/gpio/gpio" \o Str(i32_to_string(path.num)) \o "/value"
      [] path.kind = "DIRECTION" ->
            "/sys/class/gpio/gpio" \o Str(i32_to_string(path.num)) \o "/direction"

Directions == {"Input", "Output"}

\* Directions::as_str with the arms of the match exchanged.
Directions_as_str_swapped(direction) ==
    IF direction = "Input" THEN <<"o", "u", "t">> ELSE <<"i", "n">>

\* Directions::as_str / as_bytes
Directions_as_str(direction) ==
    IF direction = "Input" THEN <<"i", "n">> ELSE <<"o", "u", "t">>

(***************************************************************************)
(* Results.                                                                *)
(***************************************************************************)
\* Ok(v): v is <<>> for () and <<b>> for a bool.
Ok(v) == [tag |-> "Ok", val |-> v, err |-> "None", kind |-> "None"]
\* Err(GpioError::Io(e)), e of the given std::io::ErrorKind.
GpioError_Io(kind) == [tag |-> "Err", val |-> <<>>, err |-> "Io", kind |-> kind]
\* Err(GpioError::ParseInt(e))
GpioError_ParseInt == [tag |-> "Err", val |-> <<>>, err |-> "ParseInt", kind |-> "None"]

(***************************************************************************)
(* The platform: the sysfs GPIO attributes.  files maps each existing path *)
(* to its content.                                                         *)
(***************************************************************************)
\* The per-pin attributes of pin n exist.
Exported(fs, n) == as_str(VALUE(n)) \in DOMAIN fs

\* What the kernel creates on export: an input line reading low.
NewPinFiles(n) ==
    (as_str(VALUE(n)) :> <<"0", "\n">>) @@ (as_str(DIRECTION(n)) :> <<"i", "n", "\n">>)

\* The platform carries out a write it did not refuse.  The export and
\* unexport attributes decode the payload as a decimal line number and create
\* or remove that line's attributes (refusing a line the platform lacks, an
\* exported line on export, an unexported one on unexport); any other
\* attribute takes the payload as its content.
sysfs_store(fs, filepath, payload) ==
    LET n == parse_i32(payload)
    IN  IF filepath = as_str(EXPORT)
        THEN IF n.ok /\ n.val \in PlatformPins /\ ~Exported(fs, n.val)
             THEN [ok |-> TRUE, files |-> NewPinFiles(n.val) @@ fs]
             ELSE [ok |-> FALSE, files |-> fs]
        ELSE IF filepath = as_str(UNEXPORT)
        THEN IF n.ok /\ n.val \in PlatformPins /\ Exported(fs, n.val)
             THEN [ok |-> TRUE,
                   files |-> [q \in DOMAIN fs \ {as_str(VALUE(n.val)),
                                                 as_str(DIRECTION(n.val))} |-> fs[q]]]
             ELSE [ok |-> FALSE, files |-> fs]
        ELSE [ok |-> TRUE, files |-> (filepath :> payload) @@ fs]

\* File::write_all on an open attribute: os says whether the platform
\* accepts the request.
write_all(fs, filepath, payload, os) ==
    IF os THEN sysfs_store(fs, filepath, payload) ELSE [ok |-> FALSE, files |-> fs]

\* fs::read_to_string: the whole content, or the kind of the I/O error.
read_to_string(fs, filepath, os) ==
    IF filepath \notin DOMAIN fs THEN [ok |-> FALSE, contents |-> <<>>, kind |-> "NotFound"]
    ELSE IF ~os THEN [ok |-> FALSE, contents |-> <<>>, kind |-> "Other"]
    ELSE [ok |-> TRUE, contents |-> fs[filepath], kind |-> "None"]

(***************************************************************************)
(* The library.  Each operation yields the file system after the call and  *)
(* the call's result.                                                      *)
(***************************************************************************)
\* impl From<std::io::Error> for GpioError
GpioError_from(kind) == GpioError_Io(kind)

\* open_file with create(true): opening never fails for a missing path.
open_file_create(fs, filepath) == TRUE

\* open_file: OpenOptions::new().write(true).open(path); neither create nor
\* truncate is set, so a missing path is an error.
open_file(fs, filepath) == filepath \in DOMAIN fs

\* open_file(path).and_then(|file| file.write_all(payload).map_err(..))
open_and_write(fs, filepath, payload, os) ==
    IF ~open_file(fs, filepath)
    THEN [files |-> fs, result |-> GpioError_from("NotFound")]
    ELSE LET w == write_all(fs, filepath, payload, os)
         IN  [files |-> w.files,
              result |-> IF w.ok THEN Ok(<<>>) ELSE GpioError_from("Other")]

export(fs, num, os) == open_and_write(fs, as_str(EXPORT), i32_to_string(num), os)

unexport(fs, num, os) == open_and_write(fs, as_str(UNEXPORT), i32_to_string(num), os)

write(fs, num, signal, os) ==
    open_and_write(fs, as_str(VALUE(num)), bool_to_string(signal), os)

set_direction(fs, num, direction, os) ==
    open_and_write(fs, as_str(DIRECTION(num)), Directions_as_str(direction), os)

\* A strict reading of the level: only 1 is high.
signal_of_strict(val) == val = 1

\* value.map(|val| val > 0)
signal_of(val) == val > 0

\* read: a parse failure is wrapped in an io::Error of kind InvalidData, and
\* every io::Error becomes GpioError::Io.
read(fs, num, os) ==
    LET r == read_to_string(fs, as_str(VALUE(num)), os)
        p == parse_i32(r.contents)
    IN  [files |-> fs,
         result |-> IF ~r.ok THEN GpioError_from(r.kind)
                    ELSE IF ~p.ok THEN GpioError_from("InvalidData")
                    ELSE Ok(<<signal_of(p.val)>>)]

(***************************************************************************)
(* The library under an arbitrary caller (Spec) and a platform whose       *)
(* exported lines change level.  last is the most recent event at the      *)
(* sysfs interface: the call, its inputs and its result.                   *)
(***************************************************************************)
Call(op, pin, direction, signal, os, result) ==
    [op |-> op, pin |-> pin, direction |-> direction, signal |-> signal,
     os |-> os, result |-> result]

NoCall == Call("none", 0, "-", FALSE, TRUE, Ok(<<>>))

ControlFiles == (as_str(EXPORT) :> <<>>) @@ (as_str(UNEXPORT) :> <<>>)

\* What the kernel shows in a value attribute.
KernelValues == {<<"0", "\n">>, <<"1", "\n">>}

DriverIdle ==
    /\ args = <<>>
    /\ argi = 0
    /\ gpio_num = 0
    /\ pc = "library"
    /\ stdout = <<>>
    /\ issued = <<>>

Init ==
    /\ files = ControlFiles
    /\ last = NoCall
    /\ DriverIdle

ExportCall ==
    \E num \in ArgPins, os \in BOOLEAN :
        LET r == export(files, num, os)
        IN  /\ files' = r.files
            /\ last' = Call("export", num, "-", FALSE, os, r.result)
            /\ UNCHANGED <<args, argi, gpio_num, pc, stdout, issued>>

UnexportCall ==
    \E num \in ArgPins, os \in BOOLEAN :
        LET r == unexport(files, num, os)
        IN  /\ files' = r.files
            /\ last' = Call("unexport", num, "-", FALSE, os, r.result)
            /\ UNCHANGED <<args, argi, gpio_num, pc, stdout, issued>>

SetDirectionCall ==
    \E num \in ArgPins, direction \in Directions, os \in BOOLEAN :
        LET r == set_direction(files, num, direction, os)
        IN  /\ files' = r.files
            /\ last' = Call("set_direction", num, direction, FALSE, os, r.result)
            /\ UNCHANGED <<args, argi, gpio_num, pc, stdout, issued>>

WriteCall ==
    \E num \in ArgPins, signal \in BOOLEAN, os \in BOOLEAN :
        LET r == write(files, num, signal, os)
        IN  /\ files' = r.files
            /\ last' = Call("write", num, "-", signal, os, r.result)
            /\ UNCHANGED <<args, argi, gpio_num, pc, stdout, issued>>

ReadCall ==
    \E num \in ArgPins, os \in BOOLEAN :
        LET r == read(files, num, os)
        IN  /\ files' = r.files
            /\ last' = Call("read", num, "-", FALSE, os, r.result)
            /\ UNCHANGED <<args, argi, gpio_num, pc, stdout, issued>>

\* The line's level as the platform shows it changes (another writer, or the
\* hardware).
PlatformSetValue(contents) ==
    \E num \in PlatformPins, c \in contents :
        /\ Exported(files, num)
        /\ files' = [files EXCEPT ![as_str(VALUE(num))] = c]
        /\ last' = Call("platform", num, "-", FALSE, TRUE, Ok(<<>>))
        /\ UNCHANGED <<args, argi, gpio_num, pc, stdout, issued>>

KernelSetValue == PlatformSetValue(KernelValues)

Next ==
    \/ ExportCall
    \/ UnexportCall
    \/ SetDirectionCall
    \/ WriteCall
    \/ ReadCall
    \/ KernelSetValue

Spec == Init /\ [][Next]_vars

(***************************************************************************)
(* Properties of the library under an arbitrary caller (Spec).             *)
(***************************************************************************)
\* The per-pin paths, tabulated for the pins callers pass.
ValuePath == [n \in ArgPins |-> as_str(VALUE(n))]
DirectionPath == [n \in ArgPins |-> as_str(DIRECTION(n))]
ValueOf(fs, n) == fs[ValuePath[n]]
DirectionOf(fs, n) == fs[DirectionPath[n]]
IsExported(fs, n) == ValuePath[n] \in DOMAIN fs
Succeeded(call) == call.result.tag = "Ok"

\* C1: a write(p, v) that succeeds on an exported pin configured as Output,
\* immediately followed by a read(p) the platform serves, makes the read
\* return Ok(v).
C1_RoundTrip ==
    [][(/\ last.op = "write"
        /\ Succeeded(last)
        /\ DirectionOf(files, last.pin) = <<"o", "u", "t">>
        /\ last'.op = "read"
        /\ last'.pin = last.pin
        /\ last'.os)
       => last'.result = Ok(<<last.signal>>)]_vars

\* C2: after a successful write(pin, level) the pin's value file holds
\* exactly "1" when level is true and exactly "0" when level is false.
C2_WritePayload ==
    (last.op = "write" /\ Succeeded(last))
    => ValueOf(files, last.pin) = (IF last.signal THEN <<"1">> ELSE <<"0">>)

\* C6: set_direction, write and read on a pin that is not exported return an
\* I/O error and leave the file system as it was.
C6_NotExportedFails ==
    [][(/\ last'.op \in {"set_direction", "write", "read"}
        /\ ~IsExported(files, last'.pin))
       => (/\ last'.result.tag = "Err"
           /\ last'.result.err = "Io"
           /\ files' = files)]_vars

\* A write to a platform pin that is not exported has failed while another
\* pin is exported.
C6_Witness ==
    /\ last.op = "write"
    /\ last.pin \in PlatformPins
    /\ ~IsExported(files, last.pin)
    /\ last.result = GpioError_Io("NotFound")
    /\ \E n \in PlatformPins : IsExported(files, n)

\* C7: a successful set_direction(p, d) leaves the direction file holding
\* exactly "in" for Input and "out" for Output, whatever it held before, and
\* nothing but a successful set_direction(p, _) changes the direction file of
\* a pin that stays exported.
C7_DirectionLastWins ==
    [][/\ (last'.op = "set_direction" /\ Succeeded(last'))
          => DirectionOf(files', last'.pin) =
                (IF last'.direction = "Input" THEN <<"i", "n">> ELSE <<"o", "u", "t">>)
       /\ \A n \in PlatformPins :
            (/\ IsExported(files, n)
             /\ IsExported(files', n)
             /\ DirectionOf(files', n) # DirectionOf(files, n))
            => (last'.op = "set_direction" /\ last'.pin = n /\ Succeeded(last'))]_vars

\* set_direction(p, Input) has just succeeded on one pin, leaving "in", while
\* another pin, set to Output earlier, still holds "out".
C7_Witness ==
    /\ last.op = "set_direction"
    /\ last.direction = "Input"
    /\ Succeeded(last)
    /\ DirectionOf(files, last.pin) = <<"i", "n">>
    /\ \E n \in PlatformPins :
          n # last.pin /\ IsExported(files, n) /\ DirectionOf(files, n) = <<"o", "u", "t">>

(***************************************************************************)
(* read on a value file of any content (SpecRead): the first pin is        *)
(* exported and its value file holds a text over ReadAlphabet of at most   *)
(* MaxLen characters, or one of the longer texts of ExtraTexts.            *)
(***************************************************************************)
ReadAlphabet == {"0", "1", "2", "-", "+", "a", "\n"}

I32MaxText == <<"2", "1", "4", "7", "4", "8", "3", "6", "4", "7">>
I32MinText == <<"-", "2", "1", "4", "7", "4", "8", "3", "6", "4", "8">>

ExtraTexts ==
    { <<"a", "b", "c">>,
      I32MaxText,
      I32MinText,
      <<"2", "1", "4", "7", "4", "8", "3", "6", "4", "8">>,
      <<"-", "2", "1", "4", "7", "4", "8", "3", "6", "4", "9">>,
      <<"t", "r", "u", "e">> }

ReadTexts == UNION {[1..k -> ReadAlphabet] : k \in 0..MaxLen} \cup ExtraTexts

InitRead ==
    /\ \E c \in ReadTexts :
          files = (as_str(VALUE(FirstPin)) :> c)
                  @@ (as_str(DIRECTION(FirstPin)) :> <<"i", "n", "\n">>)
                  @@ ControlFiles
    /\ last = NoCall
    /\ DriverIdle

NextRead == ReadCall

SpecRead == InitRead /\ [][NextRead]_vars

\* The integers whose decimal text SpecRead tries.
DecimalRange == (-(10 ^ MaxLen))..(10 ^ MaxLen) \cup {I32_MAX, I32_MIN}

\* The last event is a read of an exported pin that the platform served.
ReadServed == last.op = "read" /\ last.os /\ IsExported(files, last.pin)

\* C3: a served read of a value file whose content is no integer ("abc", or
\* any text with a letter in it) fails with GpioError::ParseInt, and a read
\* fails with GpioError::Io only when the file could not be read.
C3_ParseErrorKind ==
    ReadServed
    => /\ (\E i \in 1..Len(ValueOf(files, last.pin)) :
              ValueOf(files, last.pin)[i] \in {"a", "b", "c", "t", "r", "u", "e"})
          => last.result = GpioError_ParseInt
       /\ last.result.err # "Io"

\* C4: a served read of a value file holding the decimal text of n followed
\* by a newline returns what it returns for the text alone, Ok(n > 0).
C4_TrailingNewline ==
    ReadServed
    => \A n \in DecimalRange :
          ValueOf(files, last.pin) = i32_to_string(n) \o <<"\n">>
          => last.result = Ok(<<n > 0>>)

\* C5: a served read of a value file holding the decimal text of an integer
\* n that fits i32 returns Ok(n > 0): 2 and every other positive value give
\* true, 0 and the negative values give false, and none is rejected.
C5_ReadPositive ==
    ReadServed
    => \A n \in DecimalRange :
          ValueOf(files, last.pin) = i32_to_string(n)
          => last.result = Ok(<<n > 0>>)

\* read has returned Ok(true) for a value file holding "2".
C5_Witness ==
    /\ ReadServed
    /\ ValueOf(files, last.pin) = <<"2">>
    /\ last.result = Ok(<<TRUE>>)

(***************************************************************************)
(* The command-line driver (SpecCli): main, one action per statement.      *)
(* args are the arguments after the program's name; issued is the calls    *)
(* the driver has made for the current argument.                           *)
(***************************************************************************)
ArgTokens == {i32_to_string(n) : n \in ArgPins} \cup {<<"x">>}

ArgVectors == UNION {[1..k -> ArgTokens] : k \in 0..MaxArgs}

\* A platform showing the level without the newline.
PlainValues == {<<"0">>, <<"1">>}

InitCli ==
    /\ files = ControlFiles
    /\ last = NoCall
    /\ args \in ArgVectors
    /\ argi = 0
    /\ gpio_num = 0
    /\ pc = "main"
    /\ stdout = <<>>
    /\ issued = <<>>

\* The driver going on whatever export returned.
export_unchecked(result) == TRUE

\* if (gpio::export(gpio_num).is_ok())
export_succeeded(result) == result.tag = "Ok"

\* The ? operator: go on after Ok, return the error from main otherwise.
Propagate(result, next) == IF result.tag = "Ok" THEN next ELSE "failed"

\* if args.len() == 1 { print!(usage) } else { for i in 1..args.len() ..
Main ==
    /\ pc = "main"
    /\ IF Len(args) = 0
       THEN /\ stdout' = Append(stdout, "usage: rgpio ...[num]")
            /\ pc' = "done"
            /\ argi' = argi
       ELSE /\ argi' = 1
            /\ pc' = "loop"
            /\ stdout' = stdout
    /\ UNCHANGED <<files, last, args, gpio_num, issued>>

\* The head of the loop: args[i].parse(), panicking on an error.
Loop ==
    /\ pc = "loop"
    /\ IF argi > Len(args)
       THEN /\ pc' = "done"
            /\ UNCHANGED <<gpio_num, issued>>
       ELSE LET p == parse_i32(args[argi])
            IN  IF p.ok
                THEN /\ gpio_num' = p.val
                     /\ issued' = <<>>
                     /\ pc' = "export"
                ELSE /\ pc' = "panicked"
                     /\ UNCHANGED <<gpio_num, issued>>
    /\ UNCHANGED <<files, last, args, argi, stdout>>

DriverExport ==
    /\ pc = "export"
    /\ \E os \in BOOLEAN :
        LET r == export(files, gpio_num, os)
            call == Call("export", gpio_num, "-", FALSE, os, r.result)
        IN  /\ files' = r.files
            /\ last' = call
            /\ issued' = Append(issued, call)
            /\ IF export_succeeded(r.result)
               THEN /\ pc' = "set_direction"
                    /\ UNCHANGED <<argi, stdout>>
               ELSE /\ stdout' = Append(stdout, "failed to export gpio "
                                                   \o Str(i32_to_string(gpio_num)))
                    /\ argi' = argi + 1
                    /\ pc' = "loop"
    /\ UNCHANGED <<args, gpio_num>>

DriverSetDirection ==
    /\ pc = "set_direction"
    /\ \E os \in BOOLEAN :
        LET r == set_direction(files, gpio_num, "Output", os)
            call == Call("set_direction", gpio_num, "Output", FALSE, os, r.result)
        IN  /\ files' = r.files
            /\ last' = call
            /\ issued' = Append(issued, call)
            /\ pc' = Propagate(r.result, "write_true")
    /\ UNCHANGED <<args, argi, gpio_num, stdout>>

DriverWrite(at, signal, next) ==
    /\ pc = at
    /\ \E os \in BOOLEAN :
        LET r == write(files, gpio_num, signal, os)
            call == Call("write", gpio_num, "-", signal, os, r.result)
        IN  /\ files' = r.files
            /\ last' = call
            /\ issued' = Append(issued, call)
            /\ pc' = Propagate(r.result, next)
    /\ UNCHANGED <<args, argi, gpio_num, stdout>>

\* let val = gpio::read(gpio_num)?; println!("{}", val);
DriverRead(at, next) ==
    /\ pc = at
    /\ \E os \in BOOLEAN :
        LET r == read(files, gpio_num, os)
            call == Call("read", gpio_num, "-", FALSE, os, r.result)
        IN  /\ files' = r.files
            /\ last' = call
            /\ issued' = Append(issued, call)
            /\ pc' = Propagate(r.result, next)
            /\ stdout' = IF r.result.tag = "Ok"
                         THEN Append(stdout, Str(bool_to_string(r.result.val[1])))
                         ELSE stdout
    /\ UNCHANGED <<args, argi, gpio_num>>

DriverWriteTrue == DriverWrite("write_true", TRUE, "read1")
DriverRead1 == DriverRead("read1", "write_false")
DriverWriteFalse == DriverWrite("write_false", FALSE, "read2")
DriverRead2 == DriverRead("read2", "unexport")

DriverUnexport ==
    /\ pc = "unexport"
    /\ \E os \in BOOLEAN :
        LET r == unexport(files, gpio_num, os)
            call == Call("unexport", gpio_num, "-", FALSE, os, r.result)
        IN  /\ files' = r.files
            /\ last' = call
            /\ issued' = Append(issued, call)
            /\ pc' = Propagate(r.result, "loop")
            /\ argi' = IF r.result.tag = "Ok" THEN argi + 1 ELSE argi
    /\ UNCHANGED <<args, gpio_num, stdout>>

AnySetValue == PlatformSetValue(KernelValues \cup PlainValues)

NextCli ==
    \/ Main
    \/ Loop
    \/ DriverExport
    \/ DriverSetDirection
    \/ DriverWriteTrue
    \/ DriverRead1
    \/ DriverWriteFalse
    \/ DriverRead2
    \/ DriverUnexport
    \/ AnySetValue

SpecCli == InitCli /\ [][NextCli]_vars

Terminated == pc \in {"done", "failed", "panicked"}

\* The calls of one iteration, in the order main makes them.
Sequence ==
    << [op |-> "export", direction |-> "-", signal |-> FALSE],
       [op |-> "set_direction", direction |-> "Output", signal |-> FALSE],
       [op |-> "write", direction |-> "-", signal |-> TRUE],
       [op |-> "read", direction |-> "-", signal |-> FALSE],
       [op |-> "write", direction |-> "-", signal |-> FALSE],
       [op |-> "read", direction |-> "-", signal |-> FALSE],
       [op |-> "unexport", direction |-> "-", signal |-> FALSE] >>

\* C8: in the driver's run on the single argument 4, with export(4),
\* set_direction(4, Output) and write(4, true) having returned Ok and nothing
\* else having touched the pin, the read(4) that the platform serves next
\* returns Ok(true) and the driver goes on to write(4, false).
C8_EndToEnd ==
    [][(/\ args = <<i32_to_string(FirstPin)>>
        /\ pc = "read1"
        /\ Len(issued) = 3
        /\ \A k \in 1..3 : Succeeded(issued[k])
        /\ last = issued[3]
        /\ last'.op = "read"
        /\ last'.os)
       => (last'.result = Ok(<<TRUE>>) /\ pc' = "write_false")]_vars

\* C9: the calls the driver has issued for the current argument are a prefix
\* of export, set_direction(Output), write(true), read, write(false), read,
\* unexport, all on the pin parsed from that argument, and every call but the
\* latest returned Ok (so nothing follows a failed export); a failed export
\* takes the driver to the next argument with the file system unchanged.
C9_DriverOrder ==
    /\ [](/\ Len(issued) <= Len(Sequence)
          /\ \A k \in 1..Len(issued) :
                /\ issued[k].op = Sequence[k].op
                /\ issued[k].direction = Sequence[k].direction
                /\ issued[k].signal = Sequence[k].signal
                /\ issued[k].pin = gpio_num
                /\ (k < Len(issued) => Succeeded(issued[k]))
          /\ (pc \notin {"main", "loop", "done", "panicked", "failed"}
              => parse_i32(args[argi]) = ParseOk(gpio_num)))
    /\ [][(pc = "export" /\ pc' # pc /\ ~Succeeded(last'))
          => (/\ pc' = "loop"
              /\ argi' = argi + 1
              /\ files' = files
              /\ Len(issued') = 1)]_vars

\* The driver skipped its first argument on a failed export and then made
\* all seven calls for its second argument.
C9_Witness ==
    /\ pc = "done"
    /\ Len(args) = 2
    /\ Len(stdout) = 3
    /\ stdout[1] = "failed to export gpio " \o Str(args[1])
    /\ Len(issued) = 7
    /\ Succeeded(issued[7])

\* C10: when the driver has terminated, no pin it exported is still
\* exported (no pin was exported when it started, and nothing else exports).
C10_Cleanup ==
    Terminated => \A n \in PlatformPins : ~IsExported(files, n)

====
